---- MODULE Spec2Model ----
(***************************************************************************)
(* Client-side data synchronisation of the Jawala business directory:      *)
(* the startup load (App.loadData) with its call of smartSync, the         *)
(* real-time change handler registered with subscribeToBusinessChanges,    *)
(* the Entity Cache and the Version Store they write, and the remote       *)
(* dataset they read.                                                      *)
(*                                                                         *)
(* A business is a record [id, c]: c stands for all the fields other than  *)
(* the id.  A keyed collection of businesses (the remote table, the Entity *)
(* Cache) is a function from ids to contents, 0 meaning "no such row".     *)
(* A category collection is the set of its category ids; the in-memory     *)
(* category list is kept sorted by name, which a set represents.           *)
(***************************************************************************)
EXTENDS Integers, Sequences, FiniteSets, TLC

\* ---- bounds ----
MaxId == 2
MaxContent == 2
MaxCat == 1
MaxRemoteChanges == 2
MaxEvents == 3
MaxLoads == 2
MaxRequests == 2
MaxBody == 2

Ids == 1..MaxId
Contents == 1..MaxContent
CatIds == 1..MaxCat

VARIABLES
    remoteBusinesses,   \* remote table of businesses: [Ids -> 0..MaxContent]
    remoteCategories,   \* remote table of categories: a subset of CatIds
    remoteFingerprint,  \* remote fingerprint, an opaque token renewed by every remote change
    cacheBusinesses,    \* Entity Cache, businesses: [Ids -> 0..MaxContent]
    cacheCategories,    \* Entity Cache, categories
    localVersion,       \* Version Store: Absent or a DatasetVersion
    businessData,       \* useState businessData: [categories, businesses]
    isLoading,          \* useState isLoading
    load,               \* position and locals of loadData
    sync,               \* position and locals of the smartSync invocation
    handlers,           \* change-handler invocations in flight, in delivery order
    currentUser,        \* useState currentUser: "null" or "admin"
    clock,              \* Date.now()
    loads,              \* page loads so far
    sw,                 \* the service worker: its caches and the requests it is handling
    admin,              \* the admin's save or delete in progress
    hist                \* history of the run, kept for the properties below

vars == <<remoteBusinesses, remoteCategories, remoteFingerprint, cacheBusinesses,
          cacheCategories, localVersion, businessData, isLoading, load, sync,
          handlers, currentUser, clock, loads, sw, admin, hist>>

remoteVars == <<remoteBusinesses, remoteCategories, remoteFingerprint>>
cacheVars == <<cacheBusinesses, cacheCategories>>
uiVars == <<businessData, isLoading, currentUser>>
progVars == <<remoteVars, cacheVars, localVersion, uiVars, load, sync, handlers, clock, loads>>

\* ---- data ----
NoBusinesses == [i \in Ids |-> 0]

Absent == [businessCount |-> -1, categoryCount |-> -1, fingerprint |-> -1, last_sync |-> -1]

NoData == [categories |-> {}, businesses |-> <<>>]

InsertEvents == [eventType : {"INSERT"}, id : Ids, c : Contents]
UpdateEvents == [eventType : {"UPDATE"}, id : Ids, c : Contents]
DeleteEvents == [eventType : {"DELETE"}, id : Ids, c : {0}]
Events == InsertEvents \cup UpdateEvents \cup DeleteEvents

\* Payloads that carry no record: `new' is missing from an INSERT or an
\* UPDATE, `old' from a DELETE (id 0 stands for the missing record).
BareEvents == [eventType : {"INSERT", "UPDATE", "DELETE"}, id : {0}, c : {0}]

\* Payloads whose record the decoder rejects (content -1).
GarbledEvents == [eventType : {"INSERT", "UPDATE"}, id : {0}, c : {-1}]

MalformedEvents == BareEvents \cup GarbledEvents

\* The rows of a keyed collection as a sequence of businesses, by ascending id.
RECURSIVE RowsFrom(_, _)
RowsFrom(f, i) ==
    IF i > MaxId THEN <<>>
    ELSE (IF f[i] = 0 THEN <<>> ELSE <<[id |-> i, c |-> f[i]]>>) \o RowsFrom(f, i + 1)

Rows(f) == RowsFrom(f, 1)

\* The keyed collection holding the businesses of a sequence (a later entry
\* with the same id overwrites an earlier one).
RECURSIVE Keyed(_)
Keyed(s) ==
    IF s = <<>> THEN NoBusinesses
    ELSE [Keyed(Tail(s)) EXCEPT ![Head(s).id] =
              IF \E k \in 2..Len(s) : s[k].id = Head(s).id THEN @ ELSE Head(s).c]

IdsIn(f) == {i \in Ids : f[i] # 0}

IdsOf(s) == {s[k].id : k \in 1..Len(s)}

\* ---- remote collaborator (SupabaseService) ----

\* getDataVersion(): the counts and the fingerprint of the remote dataset.
getDataVersion ==
    [businessCount |-> Cardinality(IdsIn(remoteBusinesses)),
     categoryCount |-> Cardinality(remoteCategories),
     fingerprint |-> remoteFingerprint]

fetchBusinesses == Rows(remoteBusinesses)

fetchCategories == remoteCategories

\* dbBusinessToBusiness(payload.new): the Business decoded from a raw record.
dbBusinessToBusiness(raw) == [id |-> raw.id, c |-> raw.c]

\* The remote table after the mutation an event reports.
RemoteApply(f, ev) ==
    IF ev.eventType = "DELETE" THEN [f EXCEPT ![ev.id] = 0] ELSE [f EXCEPT ![ev.id] = ev.c]

\* A mutation the remote table accepts: insert a new row, update or delete an existing one.
RemoteAccepts(ev) ==
    IF ev.eventType = "INSERT" THEN remoteBusinesses[ev.id] = 0 ELSE remoteBusinesses[ev.id] # 0

\* ---- Version Store and Entity Cache (cacheService) ----

\* Mutant: the comparison also demands equal timestamps.
VersionsEqualWithTimestamp(a, b) ==
    /\ a.businessCount = b.businessCount
    /\ a.categoryCount = b.categoryCount
    /\ a.fingerprint = b.fingerprint
    /\ a.last_sync = b.last_sync

\* The comparison of step 3 of smartSync: equality on the three version fields.
VersionsEqual(a, b) ==
    /\ a.businessCount = b.businessCount
    /\ a.categoryCount = b.categoryCount
    /\ a.fingerprint = b.fingerprint

getCachedBusinesses == Rows(cacheBusinesses)

getCachedCategories == cacheCategories

\* updateCachedBusiness(business): insert if the id is unseen, else overwrite by id.
updateCachedBusiness(f, b) == [f EXCEPT ![b.id] = b.c]

\* deleteCachedBusiness(id): remove the row; nothing changes if the id is unseen.
deleteCachedBusiness(f, id) == [f EXCEPT ![id] = 0]

\* ---- the callbacks loadData hands to smartSync ----

\* Mutant: the callback answers a failure of getDataVersion with an empty version.
fetchVersionDefaults(ok, version, now) ==
    [ok |-> TRUE,
     value |-> [businessCount |-> IF ok THEN version.businessCount ELSE 0,
                categoryCount |-> IF ok THEN version.categoryCount ELSE 0,
                fingerprint |-> IF ok THEN version.fingerprint ELSE 0,
                last_sync |-> now]]

\* Mutant: the callback stamps the time into the fingerprint.
fetchVersionStampsFingerprint(ok, version, now) ==
    IF ok
    THEN [ok |-> TRUE,
          value |-> [businessCount |-> version.businessCount,
                     categoryCount |-> version.categoryCount,
                     fingerprint |-> now,
                     last_sync |-> now]]
    ELSE [ok |-> FALSE, value |-> Absent]

\* The first callback: the remote version, stamped with the time of the call.
\* A failure of getDataVersion rejects the callback.
fetchVersion(ok, version, now) ==
    IF ok
    THEN [ok |-> TRUE,
          value |-> [businessCount |-> version.businessCount,
                     categoryCount |-> version.categoryCount,
                     fingerprint |-> version.fingerprint,
                     last_sync |-> now]]
    ELSE [ok |-> FALSE, value |-> Absent]

\* Mutant: the callback returns the businesses without the categories.
fetchAllWithoutCategories(ok, categories, businesses) ==
    IF ok
    THEN [ok |-> TRUE, value |-> [categories |-> {}, businesses |-> businesses]]
    ELSE [ok |-> FALSE, value |-> NoData]

\* The second callback: both collections; a failure of either fetch rejects it.
fetchAll(ok, categories, businesses) ==
    IF ok
    THEN [ok |-> TRUE, value |-> [categories |-> categories, businesses |-> businesses]]
    ELSE [ok |-> FALSE, value |-> NoData]

\* ---- the merge of an event into the in-memory list ----

\* INSERT: [newBusiness, ...prev.businesses]
MergeInsert(list, b) == <<b>> \o list

\* Mutant: the updated business is moved to the head of the list.
MergeUpdateMovesToHead(list, b) ==
    IF \E k \in 1..Len(list) : list[k].id = b.id
    THEN <<b>> \o SelectSeq(list, LAMBDA x : x.id # b.id)
    ELSE list

\* UPDATE: prev.businesses.map(b => b.id === updated.id ? updated : b)
MergeUpdate(list, b) == [k \in 1..Len(list) |-> IF list[k].id = b.id THEN b ELSE list[k]]

\* Mutant: the filter keeps the entries it should drop.
MergeDeleteInverted(list, id) == SelectSeq(list, LAMBDA b : b.id = id)

\* DELETE: prev.businesses.filter(b => b.id !== old.id)
MergeDelete(list, id) == SelectSeq(list, LAMBDA b : b.id # id)

\* A sequence without its i-th element.
Remove(s, i) == SubSeq(s, 1, i - 1) \o SubSeq(s, i + 1, Len(s))

\* ---- the service worker (public/sw.js) ----

CACHE_NAME == "jawala-business-v1"
RUNTIME_CACHE == "jawala-runtime-v1"

\* Names of caches of earlier generations.
OldCacheNames == {"jawala-business-v0", "jawala-runtime-v0"}
CacheNames == {CACHE_NAME, RUNTIME_CACHE} \cup OldCacheNames

\* An origin is the sequence of the labels of its host; a pathname is the
\* sequence of its pieces, cut after every "/" and "-".
AppOrigin == <<"jawala", "example">>
SupabaseOrigin == <<"abc", "supabase", "co">>
Origins == {AppOrigin, SupabaseOrigin}

RootPath == <<"/">>
ApiPath == <<"/", "api/", "items">>
IndexPath == <<"/", "assets/", "index-", "a.js">>
CacheServicePath == <<"/", "assets/", "cacheService-", "a.js">>
LogoPath == <<"/", "assets/", "logo.png">>
Paths == {RootPath, ApiPath, IndexPath, CacheServicePath, LogoPath}

Methods == {"GET", "POST"}
Requests == [method : Methods, origin : Origins, pathname : Paths]

\* The key under which the Cache API files the response of a GET request: its URL.
Urls == [origin : Origins, pathname : Paths]
Url(req) == [origin |-> req.origin, pathname |-> req.pathname]

NoResponse == [status |-> 0, body |-> 0]
Responses == [status : {200}, body : 1..MaxBody] \cup {[status |-> 404, body |-> 0]}
NetworkError == [status |-> -1, body |-> 0]

\* String.prototype.startsWith and String.prototype.includes, on pieces.
StartsWith(s, pre) == Len(s) >= Len(pre) /\ SubSeq(s, 1, Len(pre)) = pre
Includes(s, sub) == \E k \in 1..(Len(s) - Len(sub) + 1) : SubSeq(s, k, k + Len(sub) - 1) = sub

\* PRECACHE_ASSETS, as far as the requests of the model reach them.
PRECACHE_ASSETS == {[origin |-> AppOrigin, pathname |-> RootPath]}

\* A cache is the set of its entries [url, resp], at most one for a URL.
EmptyCache == {}

\* The precache after addAll: the network's response for every asset.
Precached == {[url |-> u, resp |-> [status |-> 200, body |-> 1]] : u \in PRECACHE_ASSETS}

\* cache.put(request, response): the entry of the request's URL is replaced.
CachePut(cache, url, resp) == {e \in cache : e.url # url} \cup {[url |-> url, resp |-> resp]}

\* Mutant: the listener forgets the check of the origin.
SkipsOnlyNonGet(req) == req.method # "GET"

\* The requests the fetch listener returns from without responding:
\* non-GET requests and requests to an origin that includes "supabase.co".
SkipsRequest(req) ==
    \/ req.method # "GET"
    \/ Includes(req.origin, <<"supabase", "co">>)

\* The requests served network-first.
NetworkFirst(req) ==
    \/ StartsWith(req.pathname, <<"/", "api/">>)
    \/ Includes(req.pathname, <<"assets/", "index-">>)
    \/ Includes(req.pathname, <<"assets/", "cacheService-">>)

\* Mutant: the filter spares the precache only.
StaleCachesSparesPrecacheOnly(names) == {name \in names : name # CACHE_NAME}

\* The names the activate listener filters out of caches.keys() for deletion.
StaleCaches(names) == {name \in names : name # CACHE_NAME /\ name # RUNTIME_CACHE}

\* caches.match(request): the responses filed under the request's URL in the
\* existing caches (the Cache API answers with the one of the oldest cache).
Matches(req) == {e.resp : e \in {e \in UNION {sw.store[n] : n \in sw.names} : e.url = Url(req)}}

NoAnswer == [n |-> 0, req |-> [method |-> "NONE", origin |-> <<>>, pathname |-> <<>>],
             kind |-> "none", resp |-> NoResponse]

Answer(f, kind, resp) == [n |-> f.n, req |-> f.req, kind |-> kind, resp |-> resp]

\* A worker that has just been registered: caches of earlier generations may
\* exist, and so may the runtime cache of an earlier registration.
SwRegistered(names) ==
    [phase |-> "installing", names |-> names, store |-> [n \in CacheNames |-> EmptyCache],
     toDelete |-> {}, flights |-> <<>>, puts |-> {}, requests |-> 0, last |-> NoAnswer]

\* The install listener: open the precache and add the assets to it; a
\* failure of addAll is caught and logged.
SwInstall(ok) ==
    /\ sw.phase = "installing"
    /\ sw' = [sw EXCEPT !.phase = "installed",
                        !.names = @ \cup {CACHE_NAME},
                        !.store[CACHE_NAME] = IF ok THEN Precached ELSE @]

\* The activate listener reads caches.keys() and starts deleting the stale caches.
SwActivateKeys ==
    /\ sw.phase = "installed"
    /\ sw' = [sw EXCEPT !.phase = "activating", !.toDelete = StaleCaches(sw.names)]

\* One caches.delete(name) of the Promise.all takes effect.
SwActivateDelete(name) ==
    /\ sw.phase = "activating"
    /\ name \in sw.toDelete
    /\ sw' = [sw EXCEPT !.names = @ \ {name},
                        !.store[name] = EmptyCache,
                        !.toDelete = @ \ {name}]

\* All deletions are done: clients.claim(), and the worker is active.
SwActivateClaim ==
    /\ sw.phase = "activating"
    /\ sw.toDelete = {}
    /\ sw' = [sw EXCEPT !.phase = "active"]

\* A fetch event arrives: the listener returns without responding, or
\* responds with the network-first or with the cache-first chain.
SwFetch(req) ==
    /\ sw.phase = "active"
    /\ sw.requests < MaxRequests
    /\ LET f == [n |-> sw.requests + 1, req |-> req,
                 pc |-> IF NetworkFirst(req) THEN "nfFetch" ELSE "cfMatch"]
       IN sw' = IF SkipsRequest(req)
                THEN [sw EXCEPT !.requests = @ + 1,
                                !.last = Answer(f, "passthrough", NoResponse)]
                ELSE [sw EXCEPT !.requests = @ + 1, !.flights = Append(@, f)]

\* Mutant: every response is cached, whatever its status.
WithPutAnyStatus(puts, req, resp) == puts \cup {[req |-> req, resp |-> resp]}

\* The pending writes after the listener has seen a network response:
\* a response of status 200 is cloned and handed to cache.put, unawaited.
WithPut(puts, req, resp) ==
    IF resp.status = 200 THEN puts \cup {[req |-> req, resp |-> resp]} ELSE puts

\* Network-first: the network answers or fails.
SwNetworkFirstFetch(i, outcome) ==
    /\ i \in 1..Len(sw.flights)
    /\ sw.flights[i].pc = "nfFetch"
    /\ sw' = IF outcome = NetworkError
             THEN [sw EXCEPT !.flights[i].pc = "nfMatch"]
             ELSE [sw EXCEPT !.flights = Remove(@, i),
                             !.puts = WithPut(@, sw.flights[i].req, outcome),
                             !.last = Answer(sw.flights[i], "network", outcome)]

\* Mutant: the chain has no catch, a failure of the network is the answer.
SwNetworkFirstMatchPropagates(i) ==
    /\ i \in 1..Len(sw.flights)
    /\ sw.flights[i].pc = "nfMatch"
    /\ sw' = [sw EXCEPT !.flights = Remove(@, i),
                        !.last = Answer(sw.flights[i], "error", NoResponse)]

\* Network-first, after a failure: respond with caches.match(request),
\* which is undefined (a failed response) when nothing is cached.
SwNetworkFirstMatch(i) ==
    /\ i \in 1..Len(sw.flights)
    /\ sw.flights[i].pc = "nfMatch"
    /\ LET f == sw.flights[i]
       IN IF Matches(f.req) = {}
          THEN sw' = [sw EXCEPT !.flights = Remove(@, i),
                                !.last = Answer(f, "error", NoResponse)]
          ELSE \E r \in Matches(f.req) :
                   sw' = [sw EXCEPT !.flights = Remove(@, i),
                                    !.last = Answer(f, "cache", r)]

\* Cache-first: respond with the cached response if there is one, else fetch.
SwCacheFirstMatch(i) ==
    /\ i \in 1..Len(sw.flights)
    /\ sw.flights[i].pc = "cfMatch"
    /\ LET f == sw.flights[i]
       IN IF Matches(f.req) = {}
          THEN sw' = [sw EXCEPT !.flights[i].pc = "cfFetch"]
          ELSE \E r \in Matches(f.req) :
                   sw' = [sw EXCEPT !.flights = Remove(@, i),
                                    !.last = Answer(f, "cache", r)]

\* Cache-first, after a miss: the network answers or fails.
SwCacheFirstFetch(i, outcome) ==
    /\ i \in 1..Len(sw.flights)
    /\ sw.flights[i].pc = "cfFetch"
    /\ LET f == sw.flights[i]
       IN sw' = IF outcome = NetworkError
                THEN [sw EXCEPT !.flights = Remove(@, i),
                                !.last = Answer(f, "error", NoResponse)]
                ELSE [sw EXCEPT !.flights = Remove(@, i),
                                !.puts = WithPut(@, f.req, outcome),
                                !.last = Answer(f, "network", outcome)]

\* A pending caches.open(RUNTIME_CACHE).then(cache => cache.put(...)) takes effect.
SwPut(p) ==
    /\ p \in sw.puts
    /\ sw' = [sw EXCEPT !.names = @ \cup {RUNTIME_CACHE},
                        !.store[RUNTIME_CACHE] = CachePut(@, Url(p.req), p.resp),
                        !.puts = @ \ {p}]

\* ---- initial state ----
NoResult == [action |-> "none", fromCache |-> FALSE, categories |-> {}, businesses |-> <<>>]

IdleSync ==
    [pc |-> "idle", local |-> Absent, remote |-> Absent, fetched |-> NoData,
     versionCalls |-> 0, allCalls |-> 0, result |-> NoResult]

NoEvent == [eventType |-> "NONE", id |-> 0, c |-> 0]

NoServed == [categories |-> {}, businesses |-> NoBusinesses]

\* events: events delivered so far; folded: the delivered events folded in
\* delivery order by upsert-by-id and delete-by-id; lastEv: the event whose
\* application was the last write to the cached businesses; repeated: that
\* event was applied twice in succession; seen: the ids that came in a
\* full-sync payload or in an INSERT event; served: the remote tables at the
\* last successful fetchAll; atCall: the Entity Cache and the Version Store
\* when smartSync was called; versionFailed, allFailed: a fetch of this
\* smartSync failed; lost: a remote change was not notified; handled:
\* a handler has run to its end; refreshFailed: a handler's version fetch
\* failed; syncWrote: smartSync wrote the Version Store after an event was
\* delivered; quiet: nothing but loadData has acted since the page was
\* loaded; twice, prevOk: the smartSync of the previous page load returned,
\* nothing else has acted since that load began, and (prevOk) its fetches
\* succeeded; overwritten: a replaceAll overwrote the effect of an applied
\* event; queued: an event was delivered while an earlier handler was still
\* awaiting its import; okAt: the entries [url, at] telling that a
\* network-first request for the URL was answered by the network with
\* status 200 when `at' fetch events had been dispatched; purged: activation deleted a cache;
\* wrote: the outcome of the remote write of the admin's operation;
\* malformed: a malformed event has been delivered; readFailed: the cache
\* read of this page load failed; failedEv: the last event whose durable
\* write failed; healed: a replaceAll wrote the effect of that event, which
\* the Entity Cache lacked.
NoHist ==
    [events |-> 0, folded |-> NoBusinesses, lastEv |-> NoEvent, repeated |-> FALSE,
     seen |-> {}, served |-> NoServed,
     atCall |-> [categories |-> {}, businesses |-> NoBusinesses, version |-> Absent],
     versionFailed |-> FALSE, allFailed |-> FALSE, lost |-> FALSE, handled |-> FALSE,
     refreshFailed |-> FALSE, syncWrote |-> FALSE,
     quiet |-> TRUE, twice |-> FALSE, prevOk |-> FALSE,
     overwritten |-> FALSE, queued |-> FALSE, okAt |-> {},
     purged |-> FALSE, wrote |-> "none", malformed |-> FALSE, readFailed |-> FALSE,
     failedEv |-> NoEvent, healed |-> FALSE]

\* pc: the await the operation is suspended at; business: the business being
\* saved (id 0 is the empty id of a business not yet persisted); deletingId:
\* useState deletingId of EditBusinessList (0 is null); success, error: an
\* alert of success, of failure, has been shown for this operation;
\* adminView, showLogin, businessToEdit: the useState values of App ("null"
\* and 0 are null); signingIn, signingOut: signIn, signOut is being awaited.
AdminIdle ==
    [pc |-> "idle", business |-> [id |-> 0, c |-> 0], isSaving |-> FALSE,
     deletingId |-> 0, success |-> FALSE, error |-> FALSE,
     adminView |-> "null", showLogin |-> FALSE, businessToEdit |-> 0,
     signingIn |-> FALSE, signingOut |-> FALSE]

\* A page load on a device whose Entity Cache and Version Store are still
\* empty, whatever the remote dataset holds.
Init ==
    /\ remoteBusinesses \in [Ids -> 0..MaxContent]
    /\ remoteCategories \in SUBSET CatIds
    /\ remoteFingerprint = 0
    /\ cacheBusinesses = NoBusinesses
    /\ cacheCategories = {}
    /\ localVersion = Absent
    /\ businessData = NoData
    /\ isLoading = TRUE
    /\ load = [pc |-> "readCache", alert |-> FALSE]
    /\ sync = IdleSync
    /\ handlers = <<>>
    /\ currentUser = "null"
    /\ clock = 1
    /\ loads = 1
    /\ sw = SwRegistered({})
    /\ admin = AdminIdle
    /\ hist = NoHist

\* ---- smartSync(fetchVersion, fetchAll) ----

\* Step 1: read the local version from the Version Store.
SyncGetLocal ==
    /\ sync.pc = "getLocal"
    /\ sync' = [sync EXCEPT !.pc = "fetchVersion", !.local = localVersion]
    /\ UNCHANGED <<remoteVars, cacheVars, localVersion, uiVars, load, handlers, clock, loads>>

\* Mutant: an absent local version is taken for "nothing to compare, no change".
SyncFetchVersionTrustsAbsent(ok) ==
    /\ sync.pc = "fetchVersion"
    /\ LET r == fetchVersion(ok, getDataVersion, clock)
       IN sync' = [sync EXCEPT
               !.versionCalls = @ + 1,
               !.remote = r.value,
               !.pc = IF ~r.ok THEN "fallback"
                      ELSE IF sync.local = Absent \/ VersionsEqual(r.value, sync.local)
                           THEN "noChange"
                           ELSE "fetchAll"]
    /\ clock' = clock + 1
    /\ UNCHANGED <<remoteVars, cacheVars, localVersion, uiVars, load, handlers, loads>>

\* Steps 2 and 3: call fetchVersion; fall back to the cache if it fails,
\* otherwise compare the remote version to the local one.
SyncFetchVersion(ok) ==
    /\ sync.pc = "fetchVersion"
    /\ LET r == fetchVersion(ok, getDataVersion, clock)
       IN sync' = [sync EXCEPT
               !.versionCalls = @ + 1,
               !.remote = r.value,
               !.pc = IF ~r.ok THEN "fallback"
                      ELSE IF sync.local # Absent /\ VersionsEqual(r.value, sync.local)
                           THEN "noChange"
                           ELSE "fetchAll"]
    /\ clock' = clock + 1
    /\ UNCHANGED <<remoteVars, cacheVars, localVersion, uiVars, load, handlers, loads>>

\* Step 4, the fetch: call fetchAll; fall back to the cache if it fails.
SyncFetchAll(ok) ==
    /\ sync.pc = "fetchAll"
    /\ LET r == fetchAll(ok, fetchCategories, fetchBusinesses)
       IN sync' = [sync EXCEPT
               !.allCalls = @ + 1,
               !.fetched = r.value,
               !.pc = IF r.ok THEN "replaceAll" ELSE "fallback"]
    /\ UNCHANGED <<remoteVars, cacheVars, localVersion, uiVars, load, handlers, clock, loads>>

\* Step 4, Entity Cache.replaceAll(categories, businesses): one bulk overwrite.
SyncReplaceAll ==
    /\ sync.pc = "replaceAll"
    /\ cacheBusinesses' = Keyed(sync.fetched.businesses)
    /\ cacheCategories' = sync.fetched.categories
    /\ sync' = [sync EXCEPT !.pc = "setVersion"]
    /\ UNCHANGED <<remoteVars, localVersion, uiVars, load, handlers, clock, loads>>

\* Step 4, Version Store.set(remoteVersion), and the return of the fresh data.
SyncSetVersion ==
    /\ sync.pc = "setVersion"
    /\ localVersion' = sync.remote
    /\ sync' = [sync EXCEPT
            !.pc = "done",
            !.result = [action |-> "synced", fromCache |-> FALSE,
                        categories |-> sync.fetched.categories,
                        businesses |-> sync.fetched.businesses]]
    /\ UNCHANGED <<remoteVars, cacheVars, uiVars, load, handlers, clock, loads>>

\* Steps 2 and 3, the return of the current Entity Cache contents.
SyncReturnCache ==
    /\ sync.pc \in {"fallback", "noChange"}
    /\ sync' = [sync EXCEPT
            !.pc = "done",
            !.result = [action |-> "no_change", fromCache |-> TRUE,
                        categories |-> getCachedCategories,
                        businesses |-> getCachedBusinesses]]
    /\ UNCHANGED <<remoteVars, cacheVars, localVersion, uiVars, load, handlers, clock, loads>>

\* ---- App.loadData ----

\* Read the cache (a failed read counts as empty), show it if it holds a
\* business, then call smartSync.
LoadReadCache(ok) ==
    /\ load.pc = "readCache"
    /\ LET cachedData == IF ok THEN <<getCachedBusinesses, getCachedCategories>>
                         ELSE <<<<>>, {}>>
       IN IF Len(cachedData[1]) > 0
          THEN /\ businessData' = [categories |-> cachedData[2], businesses |-> cachedData[1]]
               /\ isLoading' = FALSE
          ELSE UNCHANGED <<businessData, isLoading>>
    /\ load' = [load EXCEPT !.pc = "sync"]
    /\ sync' = [IdleSync EXCEPT !.pc = "getLocal"]
    /\ UNCHANGED <<remoteVars, cacheVars, localVersion, currentUser, handlers, clock, loads>>

\* Mutant: the data of the SyncResult is shown whatever its action.
LoadApplyResultAlways ==
    /\ load.pc = "sync"
    /\ sync.pc = "done"
    /\ businessData' = [categories |-> sync.result.categories,
                        businesses |-> sync.result.businesses]
    /\ load' = [load EXCEPT !.pc = "session"]
    /\ UNCHANGED <<remoteVars, cacheVars, localVersion, isLoading, currentUser, sync,
                   handlers, clock, loads>>

\* smartSync has returned: show its data unless its action is no_change.
LoadApplyResult ==
    /\ load.pc = "sync"
    /\ sync.pc = "done"
    /\ businessData' = IF sync.result.action # "no_change"
                       THEN [categories |-> sync.result.categories,
                             businesses |-> sync.result.businesses]
                       ELSE businessData
    /\ load' = [load EXCEPT !.pc = "session"]
    /\ UNCHANGED <<remoteVars, cacheVars, localVersion, isLoading, currentUser, sync,
                   handlers, clock, loads>>

\* Mutant: a failed session check leaves through the catch without the finally.
LoadSessionWithoutFinally(outcome) ==
    /\ load.pc = "session"
    /\ currentUser' = IF outcome = "admin" THEN "admin" ELSE currentUser
    /\ isLoading' = IF outcome = "fail" THEN isLoading ELSE FALSE
    /\ load' = [pc |-> "done", alert |-> (outcome = "fail")]
    /\ UNCHANGED <<remoteVars, cacheVars, localVersion, businessData, sync, handlers,
                   clock, loads>>

\* The session check (getCurrentUser, isUserAdmin), the catch and the finally.
LoadSession(outcome) ==
    /\ load.pc = "session"
    /\ currentUser' = IF outcome = "admin" THEN "admin" ELSE currentUser
    /\ isLoading' = FALSE
    /\ load' = [pc |-> "done", alert |-> (outcome = "fail")]
    /\ UNCHANGED <<remoteVars, cacheVars, localVersion, businessData, sync, handlers,
                   clock, loads>>

\* The page is loaded again: the component state starts afresh, the handlers
\* of the old page are gone, the persisted state stays.
Reload ==
    /\ loads < MaxLoads
    /\ loads' = loads + 1
    /\ businessData' = NoData
    /\ isLoading' = TRUE
    /\ currentUser' = "null"
    /\ load' = [pc |-> "readCache", alert |-> FALSE]
    /\ sync' = IdleSync
    /\ handlers' = <<>>
    /\ UNCHANGED <<remoteVars, cacheVars, localVersion, clock>>

\* ---- the change handler of subscribeToBusinessChanges ----

NewHandler(ev) == [ev |-> ev, pc |-> "import", version |-> Absent, unseen |-> FALSE]

\* No handler delivered before handler i is still at one of the positions pcs:
\* the continuations of one awaited module and the requests to one local
\* store are served in the order they were made.
Before(i, pcs) == \A j \in 1..(i - 1) : handlers[j].pc \notin pcs

\* The transport delivers an event: the handler starts and awaits the import.
Deliver(ev) ==
    /\ handlers' = Append(handlers, NewHandler(ev))
    /\ UNCHANGED <<remoteVars, cacheVars, localVersion, uiVars, load, sync, clock, loads>>

\* Mutant: the UPDATE branch does not write the Entity Cache.
HApplySkipsUpdate(i) ==
    /\ i \in 1..Len(handlers)
    /\ handlers[i].pc = "import"
    /\ Before(i, {"import"})
    /\ LET ev == handlers[i].ev
       IN /\ cacheBusinesses' =
                 IF ev.eventType = "INSERT"
                 THEN updateCachedBusiness(cacheBusinesses, dbBusinessToBusiness(ev))
                 ELSE IF ev.eventType = "UPDATE"
                 THEN cacheBusinesses
                 ELSE deleteCachedBusiness(cacheBusinesses, ev.id)
          /\ handlers' = [handlers EXCEPT ![i].pc = "persist",
                                          ![i].unseen = (cacheBusinesses[ev.id] = 0)]
    /\ UNCHANGED <<remoteVars, cacheCategories, localVersion, uiVars, load, sync, clock, loads>>

\* A business merged into the row already cached instead of replacing it.
Accumulated(f, b) ==
    [id |-> b.id, c |-> IF f[b.id] = 0 THEN b.c ELSE ((f[b.id] + b.c - 1) % MaxContent) + 1]

\* Mutant: the handler merges the event's business into the cached row
\* instead of overwriting the row with it.
HApplyAccumulates(i) ==
    /\ i \in 1..Len(handlers)
    /\ handlers[i].pc = "import"
    /\ Before(i, {"import"})
    /\ LET ev == handlers[i].ev
       IN /\ cacheBusinesses' =
                 IF ev.eventType \in {"INSERT", "UPDATE"}
                 THEN updateCachedBusiness(cacheBusinesses,
                                           Accumulated(cacheBusinesses, dbBusinessToBusiness(ev)))
                 ELSE deleteCachedBusiness(cacheBusinesses, ev.id)
          /\ handlers' = [handlers EXCEPT ![i].pc = "persist",
                                          ![i].unseen = (cacheBusinesses[ev.id] = 0)]
    /\ UNCHANGED <<remoteVars, cacheCategories, localVersion, uiVars, load, sync, clock, loads>>

\* Mutant: the handlers write the Entity Cache in whatever order their
\* imports happen to resolve.
HApplyUnordered(i) ==
    /\ i \in 1..Len(handlers)
    /\ handlers[i].pc = "import"
    /\ LET ev == handlers[i].ev
       IN /\ cacheBusinesses' =
                 IF ev.eventType = "INSERT"
                 THEN updateCachedBusiness(cacheBusinesses, dbBusinessToBusiness(ev))
                 ELSE IF ev.eventType = "UPDATE"
                 THEN updateCachedBusiness(cacheBusinesses, dbBusinessToBusiness(ev))
                 ELSE deleteCachedBusiness(cacheBusinesses, ev.id)
          /\ handlers' = [handlers EXCEPT ![i].pc = "persist",
                                          ![i].unseen = (cacheBusinesses[ev.id] = 0)]
    /\ UNCHANGED <<remoteVars, cacheCategories, localVersion, uiVars, load, sync, clock, loads>>

\* The import has resolved: the handler writes the event to the Entity Cache.
HApply(i) ==
    /\ i \in 1..Len(handlers)
    /\ handlers[i].pc = "import"
    /\ handlers[i].ev \in Events
    /\ Before(i, {"import"})
    /\ LET ev == handlers[i].ev
       IN /\ cacheBusinesses' =
                 IF ev.eventType = "INSERT"
                 THEN updateCachedBusiness(cacheBusinesses, dbBusinessToBusiness(ev))
                 ELSE IF ev.eventType = "UPDATE"
                 THEN updateCachedBusiness(cacheBusinesses, dbBusinessToBusiness(ev))
                 ELSE deleteCachedBusiness(cacheBusinesses, ev.id)
          /\ handlers' = [handlers EXCEPT ![i].pc = "persist",
                                          ![i].unseen = (cacheBusinesses[ev.id] = 0)]
    /\ UNCHANGED <<remoteVars, cacheCategories, localVersion, uiVars, load, sync, clock, loads>>

\* Mutant: the failure of the durable write is thrown to the handler, which
\* has nothing to catch it.
HApplyFailsRejects(i) ==
    /\ i \in 1..Len(handlers)
    /\ handlers[i].pc = "import"
    /\ handlers[i].ev \in Events
    /\ Before(i, {"import"})
    /\ handlers' = Remove(handlers, i)
    /\ UNCHANGED <<remoteVars, cacheVars, localVersion, uiVars, load, sync, clock, loads>>

\* The import has resolved and the durable write of upsertBusiness or
\* deleteBusiness fails: the Entity Cache logs and swallows the error, and
\* the handler goes on as after a write that succeeded.
HApplyFails(i) ==
    /\ i \in 1..Len(handlers)
    /\ handlers[i].pc = "import"
    /\ handlers[i].ev \in Events
    /\ Before(i, {"import"})
    /\ handlers' = [handlers EXCEPT ![i].pc = "persist",
                                    ![i].unseen = (cacheBusinesses[handlers[i].ev.id] = 0)]
    /\ UNCHANGED <<remoteVars, cacheVars, localVersion, uiVars, load, sync, clock, loads>>

\* The import has resolved and the payload carries no record: none of the
\* three branches is taken, and the handler goes on to the version refresh.
HSkip(i) ==
    /\ i \in 1..Len(handlers)
    /\ handlers[i].pc = "import"
    /\ handlers[i].ev \in BareEvents
    /\ Before(i, {"import"})
    /\ handlers' = [handlers EXCEPT ![i].pc = "getVersion"]
    /\ UNCHANGED <<remoteVars, cacheVars, localVersion, uiVars, load, sync, clock, loads>>

\* The import has resolved and dbBusinessToBusiness throws on the record:
\* nothing catches it, the handler's promise is rejected and the handler ends.
HDecodeFails(i) ==
    /\ i \in 1..Len(handlers)
    /\ handlers[i].pc = "import"
    /\ handlers[i].ev \in GarbledEvents
    /\ Before(i, {"import"})
    /\ handlers' = Remove(handlers, i)
    /\ UNCHANGED <<remoteVars, cacheVars, localVersion, uiVars, load, sync, clock, loads>>

\* The cache write has returned: the handler merges the event into the
\* in-memory list.
HMerge(i) ==
    /\ i \in 1..Len(handlers)
    /\ handlers[i].pc = "persist"
    /\ Before(i, {"import", "persist"})
    /\ LET ev == handlers[i].ev
       IN businessData' =
              [businessData EXCEPT !.businesses =
                  IF ev.eventType = "INSERT" THEN MergeInsert(@, dbBusinessToBusiness(ev))
                  ELSE IF ev.eventType = "UPDATE" THEN MergeUpdate(@, dbBusinessToBusiness(ev))
                  ELSE MergeDelete(@, ev.id)]
    /\ handlers' = [handlers EXCEPT ![i].pc = "getVersion"]
    /\ UNCHANGED <<remoteVars, cacheVars, localVersion, isLoading, currentUser, load, sync,
                   clock, loads>>

\* The remote answers getDataVersion; a failure is caught and logged, and
\* the handler ends.
HGetVersion(i, ok) ==
    /\ i \in 1..Len(handlers)
    /\ handlers[i].pc = "getVersion"
    /\ handlers' = IF ok
                   THEN [handlers EXCEPT ![i].pc = "setVersion", ![i].version = getDataVersion]
                   ELSE Remove(handlers, i)
    /\ UNCHANGED <<remoteVars, cacheVars, localVersion, uiVars, load, sync, clock, loads>>

\* The answer has arrived: setLocalVersion({...newVersion, last_sync: Date.now()}).
HSetVersion(i) ==
    /\ i \in 1..Len(handlers)
    /\ handlers[i].pc = "setVersion"
    /\ localVersion' = fetchVersion(TRUE, handlers[i].version, clock).value
    /\ clock' = clock + 1
    /\ handlers' = Remove(handlers, i)
    /\ UNCHANGED <<remoteVars, cacheVars, uiVars, load, sync, loads>>

\* ---- the admin's save and delete (handleSaveBusiness, handleDeleteBusiness) ----

\* The remote table after addBusiness, updateBusiness or deleteBusiness
\* succeeded: an update or a delete of a row that is gone changes nothing.
RemoteWrite(f, ev) ==
    IF ev.eventType # "INSERT" /\ f[ev.id] = 0 THEN f ELSE RemoteApply(f, ev)

\* The remote applies a write of this client and may notify it by an event.
RemoteWritten(ev, notified) ==
    LET after == RemoteWrite(remoteBusinesses, ev)
    IN /\ remoteBusinesses' = after
       /\ remoteFingerprint' = IF after # remoteBusinesses THEN remoteFingerprint + 1
                               ELSE remoteFingerprint
       /\ handlers' = IF notified /\ after # remoteBusinesses
                      THEN Append(handlers, NewHandler(ev))
                      ELSE handlers

\* The form is submitted with the id of businessToEdit (the empty id for a
\* new business): setIsSaving(true), then the remote write is awaited.
SaveStart(b) ==
    /\ admin.adminView = "add"
    /\ admin.pc = "idle"
    /\ remoteFingerprint < MaxRemoteChanges
    /\ b.id = admin.businessToEdit
    /\ b.id = 0 => \E id \in Ids : remoteBusinesses[id] = 0
    /\ admin' = [admin EXCEPT !.pc = "saveMutate", !.business = b, !.isSaving = TRUE,
                              !.deletingId = 0, !.success = FALSE, !.error = FALSE]
    /\ UNCHANGED <<remoteVars, cacheVars, localVersion, uiVars, load, sync, handlers,
                   clock, loads>>

\* Mutant: the success alert is shown whether or not the remote write succeeded.
SaveMutateAlwaysReportsSuccess(ok, notified) ==
    /\ admin.pc = "saveMutate"
    /\ IF ok
       THEN /\ \E id \in Ids :
                  /\ IF admin.business.id # 0 THEN id = admin.business.id
                     ELSE remoteBusinesses[id] = 0
                  /\ RemoteWritten([eventType |-> IF admin.business.id # 0 THEN "UPDATE"
                                                  ELSE "INSERT",
                                    id |-> id, c |-> admin.business.c], notified)
            /\ admin' = [admin EXCEPT !.pc = "saveReload", !.success = TRUE]
       ELSE /\ admin' = [admin EXCEPT !.pc = "idle", !.success = TRUE, !.error = TRUE,
                                      !.isSaving = FALSE]
            /\ UNCHANGED <<remoteBusinesses, remoteFingerprint, handlers>>
    /\ UNCHANGED <<remoteCategories, cacheVars, localVersion, uiVars, load, sync, clock, loads>>

\* updateBusiness or addBusiness returns: on success the success alert is
\* shown and the businesses are fetched again; a failure is caught, the error
\* alert is shown, and finally setIsSaving(false).
SaveMutate(ok, notified) ==
    /\ admin.pc = "saveMutate"
    /\ IF ok
       THEN /\ \E id \in Ids :
                  /\ IF admin.business.id # 0 THEN id = admin.business.id
                     ELSE remoteBusinesses[id] = 0
                  /\ RemoteWritten([eventType |-> IF admin.business.id # 0 THEN "UPDATE"
                                                  ELSE "INSERT",
                                    id |-> id, c |-> admin.business.c], notified)
            /\ admin' = [admin EXCEPT !.pc = "saveReload", !.success = TRUE]
       ELSE /\ admin' = [admin EXCEPT !.pc = "idle", !.error = TRUE, !.isSaving = FALSE]
            /\ UNCHANGED <<remoteBusinesses, remoteFingerprint, handlers>>
    /\ UNCHANGED <<remoteCategories, cacheVars, localVersion, uiVars, load, sync, clock, loads>>

\* fetchBusinesses returns: on success the in-memory list is replaced and
\* the dashboard is shown; a failure is caught and the error alert is shown;
\* finally setIsSaving(false).
SaveReload(ok) ==
    /\ admin.pc = "saveReload"
    /\ businessData' = IF ok THEN [businessData EXCEPT !.businesses = fetchBusinesses]
                       ELSE businessData
    /\ admin' = [admin EXCEPT !.pc = "idle", !.error = ~ok, !.isSaving = FALSE,
                              !.adminView = IF ok THEN "dashboard" ELSE @,
                              !.businessToEdit = IF ok THEN 0 ELSE @]
    /\ UNCHANGED <<remoteVars, cacheVars, localVersion, isLoading, currentUser, load, sync,
                   handlers, clock, loads>>

\* The admin confirms the deletion of a listed business: setDeletingId(id),
\* then onDelete(id) is awaited.
DeleteStart(id) ==
    /\ admin.adminView = "edit-list"
    /\ admin.pc = "idle"
    /\ remoteFingerprint < MaxRemoteChanges
    /\ id \in IdsOf(businessData.businesses)
    /\ admin' = [admin EXCEPT !.pc = "deleteMutate", !.deletingId = id,
                              !.business = AdminIdle.business,
                              !.success = FALSE, !.error = FALSE]
    /\ UNCHANGED <<remoteVars, cacheVars, localVersion, uiVars, load, sync, handlers,
                   clock, loads>>

\* deleteBusiness returns: on success the businesses are fetched again; a
\* failure is rethrown to handleDelete, which shows the error alert and
\* finally resets deletingId.
DeleteMutate(ok, notified) ==
    /\ admin.pc = "deleteMutate"
    /\ IF ok
       THEN /\ RemoteWritten([eventType |-> "DELETE", id |-> admin.deletingId, c |-> 0],
                             notified)
            /\ admin' = [admin EXCEPT !.pc = "deleteReload"]
       ELSE /\ admin' = [admin EXCEPT !.pc = "idle", !.error = TRUE, !.deletingId = 0]
            /\ UNCHANGED <<remoteBusinesses, remoteFingerprint, handlers>>
    /\ UNCHANGED <<remoteCategories, cacheVars, localVersion, uiVars, load, sync, clock, loads>>

\* fetchBusinesses returns: on success the in-memory list is replaced and the
\* success alert is shown; a failure is rethrown and the error alert is shown.
DeleteReload(ok) ==
    /\ admin.pc = "deleteReload"
    /\ businessData' = IF ok THEN [businessData EXCEPT !.businesses = fetchBusinesses]
                       ELSE businessData
    /\ admin' = [admin EXCEPT !.pc = "idle", !.success = ok, !.error = ~ok,
                              !.deletingId = 0]
    /\ UNCHANGED <<remoteVars, cacheVars, localVersion, isLoading, currentUser, load, sync,
                   handlers, clock, loads>>

\* ---- the admin modals (login, dashboard, edit list, form) ----

\* The footer's admin link: handleAdminLoginClick.
handleAdminLoginClick ==
    /\ ~admin.showLogin
    /\ admin' = [admin EXCEPT !.showLogin = TRUE]
    /\ UNCHANGED progVars

\* The login modal is closed.
LoginClose ==
    /\ admin.showLogin
    /\ admin' = [admin EXCEPT !.showLogin = FALSE]
    /\ UNCHANGED progVars

\* LoginModal.handleLogin: the form is submitted and signIn is awaited.
handleLogin ==
    /\ admin.showLogin
    /\ ~admin.signingIn
    /\ admin' = [admin EXCEPT !.signingIn = TRUE]
    /\ UNCHANGED progVars

\* signIn rejects: the modal shows the error.
handleLoginFails ==
    /\ admin.signingIn
    /\ admin' = [admin EXCEPT !.signingIn = FALSE]
    /\ UNCHANGED progVars

\* signIn returns the user of the account: onLoginSuccess(user), that is
\* handleLoginSuccess, without a call of isUserAdmin.
handleLoginSuccess(user) ==
    /\ admin.signingIn
    /\ currentUser' = user
    /\ admin' = [admin EXCEPT !.signingIn = FALSE, !.showLogin = FALSE,
                              !.adminView = "dashboard"]
    /\ UNCHANGED <<remoteVars, cacheVars, localVersion, businessData, isLoading, load,
                   sync, handlers, clock, loads>>

\* The dashboard's buttons onAdd and onEdit.
onAdd ==
    /\ admin.adminView = "dashboard"
    /\ admin' = [admin EXCEPT !.businessToEdit = 0, !.adminView = "add"]
    /\ UNCHANGED progVars

onEdit ==
    /\ admin.adminView = "dashboard"
    /\ admin' = [admin EXCEPT !.adminView = "edit-list"]
    /\ UNCHANGED progVars

\* The edit list's onSelect(business) and onBack.
onSelect(id) ==
    /\ admin.adminView = "edit-list"
    /\ id \in IdsOf(businessData.businesses)
    /\ admin' = [admin EXCEPT !.businessToEdit = id, !.adminView = "add"]
    /\ UNCHANGED progVars

onBack ==
    /\ admin.adminView = "edit-list"
    /\ admin' = [admin EXCEPT !.adminView = "dashboard"]
    /\ UNCHANGED progVars

\* The form's onClose; it is not disabled while a save is in flight.
FormClose ==
    /\ admin.adminView = "add"
    /\ admin' = [admin EXCEPT
            !.adminView = IF admin.businessToEdit # 0 THEN "edit-list" ELSE "dashboard",
            !.businessToEdit = 0]
    /\ UNCHANGED progVars

\* handleCloseAdmin, the onClose of the dashboard and of the edit list.
handleCloseAdmin ==
    /\ admin.adminView \in {"dashboard", "edit-list"}
    /\ admin' = [admin EXCEPT !.adminView = "null", !.businessToEdit = 0]
    /\ UNCHANGED progVars

\* The dashboard's logout button: handleLogout awaits signOut.
LogoutStart ==
    /\ admin.adminView = "dashboard"
    /\ ~admin.signingOut
    /\ admin' = [admin EXCEPT !.signingOut = TRUE]
    /\ UNCHANGED progVars

\* signOut returns: on success setCurrentUser(null) and setAdminView(null); a
\* failure is caught and alerted, the state stays.
handleLogout(ok) ==
    /\ admin.signingOut
    /\ currentUser' = IF ok THEN "null" ELSE currentUser
    /\ admin' = [admin EXCEPT !.signingOut = FALSE,
                              !.adminView = IF ok THEN "null" ELSE @]
    /\ UNCHANGED <<remoteVars, cacheVars, localVersion, businessData, isLoading, load,
                   sync, handlers, clock, loads>>

\* ---- the remote dataset ----

\* Somebody changes a business in the remote table.
RemoteMutate(ev) ==
    /\ remoteFingerprint < MaxRemoteChanges
    /\ RemoteAccepts(ev)
    /\ remoteBusinesses' = RemoteApply(remoteBusinesses, ev)
    /\ remoteFingerprint' = remoteFingerprint + 1
    /\ UNCHANGED <<remoteCategories, cacheVars, localVersion, uiVars, load, sync, clock, loads>>

\* The change is notified to this client by an event.
RemoteMutateNotified(ev) ==
    /\ RemoteMutate(ev)
    /\ handlers' = Append(handlers, NewHandler(ev))

\* The notification of the change is lost.
RemoteMutateLost(ev) ==
    /\ RemoteMutate(ev)
    /\ handlers' = handlers

\* Somebody changes the remote categories; no event reports it.
RemoteCategoryChange(cats) ==
    /\ remoteFingerprint < MaxRemoteChanges
    /\ cats # remoteCategories
    /\ remoteCategories' = cats
    /\ remoteFingerprint' = remoteFingerprint + 1
    /\ UNCHANGED <<remoteBusinesses, cacheVars, localVersion, uiVars, load, sync, handlers,
                   clock, loads>>

\* ---- specifications ----

\* The delivered events folded in order: upsert-by-id, delete-by-id.
Fold(f, ev) == IF ev.eventType = "DELETE" THEN [f EXCEPT ![ev.id] = 0] ELSE [f EXCEPT ![ev.id] = ev.c]

\* The history after the delivery of an event.
Delivered(h, ev) ==
    [h EXCEPT !.events = @ + 1,
              !.seen = IF ev.eventType = "INSERT" THEN @ \cup {ev.id} ELSE @]

\* The startup load, the change handler and the remote dataset together.
Next ==
    \/ (\E ok \in BOOLEAN : LoadReadCache(ok)) /\ UNCHANGED <<hist, sw, admin>>
    \/ SyncGetLocal /\ UNCHANGED <<hist, sw, admin>>
    \/ (\E ok \in BOOLEAN : SyncFetchVersion(ok)) /\ UNCHANGED <<hist, sw, admin>>
    \/ (\E ok \in BOOLEAN : SyncFetchAll(ok)) /\ UNCHANGED <<hist, sw, admin>>
    \/ SyncReplaceAll /\ hist' = [hist EXCEPT !.seen = @ \cup IdsOf(sync.fetched.businesses)]
                      /\ UNCHANGED <<sw, admin>>
    \/ SyncSetVersion /\ hist' = [hist EXCEPT !.syncWrote = @ \/ hist.events > 0]
                      /\ UNCHANGED <<sw, admin>>
    \/ SyncReturnCache /\ UNCHANGED <<hist, sw, admin>>
    \/ LoadApplyResult /\ UNCHANGED <<hist, sw, admin>>
    \/ (\E outcome \in {"none", "user", "admin", "fail"} : LoadSession(outcome)) /\ UNCHANGED <<hist, sw, admin>>
    \/ Reload /\ hist' = [hist EXCEPT !.lost = @ \/ handlers # <<>>]
              /\ UNCHANGED <<sw, admin>>
    \/ \E ev \in Events : RemoteMutateNotified(ev) /\ hist' = Delivered(hist, ev)
                                                   /\ UNCHANGED <<sw, admin>>
    \/ \E ev \in Events : RemoteMutateLost(ev) /\ hist' = [hist EXCEPT !.lost = TRUE]
                                               /\ UNCHANGED <<sw, admin>>
    \/ (\E cats \in SUBSET CatIds : RemoteCategoryChange(cats)) /\ hist' = [hist EXCEPT !.lost = TRUE]
                                                                /\ UNCHANGED <<sw, admin>>
    \/ (\E i \in 1..Len(handlers) : HApply(i)) /\ UNCHANGED <<hist, sw, admin>>
    \/ (\E i \in 1..Len(handlers) : HMerge(i)) /\ UNCHANGED <<hist, sw, admin>>
    \/ (\E i \in 1..Len(handlers) : HGetVersion(i, TRUE)) /\ UNCHANGED <<hist, sw, admin>>
    \/ (\E i \in 1..Len(handlers) : HGetVersion(i, FALSE))
           /\ hist' = [hist EXCEPT !.handled = TRUE, !.refreshFailed = TRUE]
           /\ UNCHANGED <<sw, admin>>
    \/ (\E i \in 1..Len(handlers) : HSetVersion(i)) /\ hist' = [hist EXCEPT !.handled = TRUE]
                                                    /\ UNCHANGED <<sw, admin>>

\* The same device, the remote dataset holding one business and every category.
InitSeeded ==
    /\ Init
    /\ remoteBusinesses = [i \in Ids |-> IF i = 1 THEN 1 ELSE 0]
    /\ remoteCategories = CatIds

Spec == InitSeeded /\ [][Next]_vars

\* Page loads with their smartSync, and a remote dataset that changes
\* without notifying this client.
NextSync ==
    \/ \E ok \in BOOLEAN :
           /\ LoadReadCache(ok)
           /\ hist' = [hist EXCEPT
                  !.atCall = [categories |-> cacheCategories,
                              businesses |-> cacheBusinesses,
                              version |-> localVersion],
                  !.versionFailed = FALSE,
                  !.allFailed = FALSE,
                  !.readFailed = ~ok]
           /\ UNCHANGED <<sw, admin>>
    \/ SyncGetLocal /\ UNCHANGED <<hist, sw, admin>>
    \/ SyncFetchVersion(TRUE) /\ UNCHANGED <<hist, sw, admin>>
    \/ SyncFetchVersion(FALSE) /\ hist' = [hist EXCEPT !.versionFailed = TRUE]
                               /\ UNCHANGED <<sw, admin>>
    \/ SyncFetchAll(TRUE)
           /\ hist' = [hist EXCEPT !.served = [categories |-> remoteCategories,
                                               businesses |-> remoteBusinesses]]
           /\ UNCHANGED <<sw, admin>>
    \/ SyncFetchAll(FALSE) /\ hist' = [hist EXCEPT !.allFailed = TRUE]
                           /\ UNCHANGED <<sw, admin>>
    \/ SyncReplaceAll /\ UNCHANGED <<hist, sw, admin>>
    \/ SyncSetVersion /\ UNCHANGED <<hist, sw, admin>>
    \/ SyncReturnCache /\ UNCHANGED <<hist, sw, admin>>
    \/ LoadApplyResult /\ UNCHANGED <<hist, sw, admin>>
    \/ (\E outcome \in {"none", "user", "admin", "fail"} : LoadSession(outcome)) /\ UNCHANGED <<hist, sw, admin>>
    \/ Reload
           /\ hist' = [hist EXCEPT
                  !.quiet = TRUE,
                  !.twice = (sync.pc = "done" /\ hist.quiet),
                  !.prevOk = (~hist.versionFailed /\ ~hist.allFailed)]
           /\ UNCHANGED <<sw, admin>>
    \/ (\E ev \in Events : RemoteMutateLost(ev))
           /\ hist' = [hist EXCEPT !.quiet = FALSE, !.twice = FALSE]
           /\ UNCHANGED <<sw, admin>>
    \/ (\E cats \in SUBSET CatIds : RemoteCategoryChange(cats))
           /\ hist' = [hist EXCEPT !.quiet = FALSE, !.twice = FALSE]
           /\ UNCHANGED <<sw, admin>>

SpecSync == Init /\ [][NextSync]_vars

\* Page loads alone, the remote dataset at rest.
NextLoad ==
    \/ (\E ok \in BOOLEAN : LoadReadCache(ok)) /\ UNCHANGED <<hist, sw, admin>>
    \/ SyncGetLocal /\ UNCHANGED <<hist, sw, admin>>
    \/ (\E ok \in BOOLEAN : SyncFetchVersion(ok)) /\ UNCHANGED <<hist, sw, admin>>
    \/ (\E ok \in BOOLEAN : SyncFetchAll(ok)) /\ UNCHANGED <<hist, sw, admin>>
    \/ SyncReplaceAll /\ UNCHANGED <<hist, sw, admin>>
    \/ SyncSetVersion /\ UNCHANGED <<hist, sw, admin>>
    \/ SyncReturnCache /\ UNCHANGED <<hist, sw, admin>>
    \/ LoadApplyResult /\ UNCHANGED <<hist, sw, admin>>
    \/ (\E outcome \in {"none", "user", "admin", "fail"} : LoadSession(outcome))
           /\ UNCHANGED <<hist, sw, admin>>
    \/ Reload /\ UNCHANGED <<hist, sw, admin>>

\* Every awaited call returns or fails in the end: a step of the load that
\* stays possible is eventually taken.
SpecLoad == Init /\ [][NextLoad]_vars /\ WF_vars(NextLoad)

\* The change handler alone, fed any sequence of events by the transport,
\* on a page that has finished loading with an empty Entity Cache.
InitEvents ==
    /\ remoteBusinesses = NoBusinesses
    /\ remoteCategories = {}
    /\ remoteFingerprint = 0
    /\ cacheBusinesses = NoBusinesses
    /\ cacheCategories = {}
    /\ localVersion = Absent
    /\ businessData = NoData
    /\ isLoading = FALSE
    /\ load = [pc |-> "done", alert |-> FALSE]
    /\ sync = [IdleSync EXCEPT !.pc = "done", !.versionCalls = 1,
                               !.result = [NoResult EXCEPT !.action = "no_change",
                                                           !.fromCache = TRUE]]
    /\ handlers = <<>>
    /\ currentUser = "null"
    /\ clock = 1
    /\ loads = 1
    /\ sw = SwRegistered({})
    /\ admin = AdminIdle
    /\ hist = NoHist

NextEvents ==
    \/ \E ev \in Events :
           /\ hist.events < MaxEvents
           /\ Deliver(ev)
           /\ hist' = [hist EXCEPT !.events = @ + 1, !.folded = Fold(@, ev),
                                   !.queued = @ \/ \E j \in 1..Len(handlers) :
                                                        handlers[j].pc = "import"]
           /\ UNCHANGED <<sw, admin>>
    \/ \E i \in 1..Len(handlers) :
           /\ HApply(i)
           /\ hist' = [hist EXCEPT !.lastEv = handlers[i].ev,
                                   !.repeated = (hist.lastEv = handlers[i].ev)]
           /\ UNCHANGED <<sw, admin>>
    \/ (\E i \in 1..Len(handlers) : HMerge(i)) /\ UNCHANGED <<hist, sw, admin>>
    \/ (\E i \in 1..Len(handlers), ok \in BOOLEAN : HGetVersion(i, ok)) /\ UNCHANGED <<hist, sw, admin>>
    \/ (\E i \in 1..Len(handlers) : HSetVersion(i)) /\ UNCHANGED <<hist, sw, admin>>

SpecEvents == InitEvents /\ [][NextEvents]_vars

\* The change handler fed well-formed and malformed events alike.
NextDecode ==
    \/ \E ev \in Events \cup MalformedEvents :
           /\ hist.events < MaxEvents
           /\ Deliver(ev)
           /\ hist' = [hist EXCEPT !.events = @ + 1,
                                   !.malformed = @ \/ ev \in MalformedEvents]
           /\ UNCHANGED <<sw, admin>>
    \/ (\E i \in 1..Len(handlers) : HApply(i)) /\ UNCHANGED <<hist, sw, admin>>
    \/ (\E i \in 1..Len(handlers) : HSkip(i)) /\ UNCHANGED <<hist, sw, admin>>
    \/ (\E i \in 1..Len(handlers) : HDecodeFails(i)) /\ UNCHANGED <<hist, sw, admin>>
    \/ (\E i \in 1..Len(handlers) : HMerge(i)) /\ UNCHANGED <<hist, sw, admin>>
    \/ (\E i \in 1..Len(handlers), ok \in BOOLEAN : HGetVersion(i, ok)) /\ UNCHANGED <<hist, sw, admin>>
    \/ (\E i \in 1..Len(handlers) : HSetVersion(i)) /\ UNCHANGED <<hist, sw, admin>>

SpecDecode == InitEvents /\ [][NextDecode]_vars

\* One page load on a fresh install while remote changes are notified: the
\* full sync of smartSync and the change handler interleave at their awaits.
NextRace ==
    \/ (\E ok \in BOOLEAN : LoadReadCache(ok)) /\ UNCHANGED <<hist, sw, admin>>
    \/ SyncGetLocal /\ UNCHANGED <<hist, sw, admin>>
    \/ (\E ok \in BOOLEAN : SyncFetchVersion(ok)) /\ UNCHANGED <<hist, sw, admin>>
    \/ (\E ok \in BOOLEAN : SyncFetchAll(ok)) /\ UNCHANGED <<hist, sw, admin>>
    \/ SyncReplaceAll
           /\ hist' = [hist EXCEPT !.overwritten =
                  \/ @
                  \/ /\ hist.lastEv # NoEvent
                     /\ cacheBusinesses[hist.lastEv.id] = hist.lastEv.c
                     /\ Keyed(sync.fetched.businesses)[hist.lastEv.id] # hist.lastEv.c]
           /\ UNCHANGED <<sw, admin>>
    \/ SyncSetVersion /\ UNCHANGED <<hist, sw, admin>>
    \/ SyncReturnCache /\ UNCHANGED <<hist, sw, admin>>
    \/ LoadApplyResult /\ UNCHANGED <<hist, sw, admin>>
    \/ (\E outcome \in {"none", "user", "admin", "fail"} : LoadSession(outcome))
           /\ UNCHANGED <<hist, sw, admin>>
    \/ \E ev \in Events : RemoteMutateNotified(ev) /\ hist' = Delivered(hist, ev)
                                                   /\ UNCHANGED <<sw, admin>>
    \/ \E i \in 1..Len(handlers) :
           /\ HApply(i)
           /\ hist' = [hist EXCEPT !.lastEv = handlers[i].ev]
           /\ UNCHANGED <<sw, admin>>
    \/ (\E i \in 1..Len(handlers) : HMerge(i)) /\ UNCHANGED <<hist, sw, admin>>
    \/ (\E i \in 1..Len(handlers) : HGetVersion(i, TRUE)) /\ UNCHANGED <<hist, sw, admin>>
    \/ (\E i \in 1..Len(handlers) : HGetVersion(i, FALSE))
           /\ hist' = [hist EXCEPT !.refreshFailed = TRUE]
           /\ UNCHANGED <<sw, admin>>
    \/ (\E i \in 1..Len(handlers) : HSetVersion(i)) /\ UNCHANGED <<hist, sw, admin>>

SpecRace == InitSeeded /\ [][NextRace]_vars

\* Page loads and notified remote changes on a device whose durable writes
\* may fail while an event is applied.
NextDrift ==
    \/ LoadReadCache(TRUE) /\ UNCHANGED <<hist, sw, admin>>
    \/ SyncGetLocal /\ UNCHANGED <<hist, sw, admin>>
    \/ (\E ok \in BOOLEAN : SyncFetchVersion(ok)) /\ UNCHANGED <<hist, sw, admin>>
    \/ SyncFetchAll(TRUE)
           /\ hist' = [hist EXCEPT !.served = [categories |-> remoteCategories,
                                               businesses |-> remoteBusinesses]]
           /\ UNCHANGED <<sw, admin>>
    \/ SyncFetchAll(FALSE) /\ UNCHANGED <<hist, sw, admin>>
    \/ SyncReplaceAll
           /\ hist' = [hist EXCEPT !.healed =
                  \/ @
                  \/ /\ hist.failedEv # NoEvent
                     /\ Fold(cacheBusinesses, hist.failedEv) # cacheBusinesses
                     /\ Fold(Keyed(sync.fetched.businesses), hist.failedEv)
                            = Keyed(sync.fetched.businesses)]
           /\ UNCHANGED <<sw, admin>>
    \/ SyncSetVersion /\ UNCHANGED <<hist, sw, admin>>
    \/ SyncReturnCache /\ UNCHANGED <<hist, sw, admin>>
    \/ LoadApplyResult /\ UNCHANGED <<hist, sw, admin>>
    \/ LoadSession("none") /\ UNCHANGED <<hist, sw, admin>>
    \/ Reload /\ UNCHANGED <<hist, sw, admin>>
    \/ (\E ev \in Events : RemoteMutateNotified(ev)) /\ UNCHANGED <<hist, sw, admin>>
    \/ (\E i \in 1..Len(handlers) : HApply(i)) /\ UNCHANGED <<hist, sw, admin>>
    \/ \E i \in 1..Len(handlers) :
           /\ HApplyFails(i)
           /\ hist' = [hist EXCEPT !.failedEv = handlers[i].ev]
           /\ UNCHANGED <<sw, admin>>
    \/ (\E i \in 1..Len(handlers) : HMerge(i)) /\ UNCHANGED <<hist, sw, admin>>
    \/ (\E i \in 1..Len(handlers), ok \in BOOLEAN : HGetVersion(i, ok))
           /\ UNCHANGED <<hist, sw, admin>>
    \/ (\E i \in 1..Len(handlers) : HSetVersion(i)) /\ UNCHANGED <<hist, sw, admin>>

SpecDrift == InitSeeded /\ [][NextDrift]_vars

\* The service worker from its registration on: install, activation, and the
\* fetch events of the pages it controls; the application stays idle.
InitSW ==
    /\ remoteBusinesses = NoBusinesses
    /\ remoteCategories = {}
    /\ remoteFingerprint = 0
    /\ cacheBusinesses = NoBusinesses
    /\ cacheCategories = {}
    /\ localVersion = Absent
    /\ businessData = NoData
    /\ isLoading = FALSE
    /\ load = [pc |-> "done", alert |-> FALSE]
    /\ sync = [IdleSync EXCEPT !.pc = "done", !.versionCalls = 1,
                               !.result = [NoResult EXCEPT !.action = "no_change",
                                                           !.fromCache = TRUE]]
    /\ handlers = <<>>
    /\ currentUser = "null"
    /\ clock = 1
    /\ loads = 1
    /\ \E old \in SUBSET OldCacheNames, cur \in SUBSET {RUNTIME_CACHE} :
           sw = SwRegistered(old \cup cur)
    /\ admin = AdminIdle
    /\ hist = NoHist

NextSW ==
    \/ (\E ok \in BOOLEAN : SwInstall(ok)) /\ UNCHANGED <<progVars, admin, hist>>
    \/ SwActivateKeys /\ UNCHANGED <<progVars, admin, hist>>
    \/ (\E name \in CacheNames : SwActivateDelete(name))
           /\ hist' = [hist EXCEPT !.purged = TRUE]
           /\ UNCHANGED <<progVars, admin>>
    \/ SwActivateClaim /\ UNCHANGED <<progVars, admin, hist>>
    \/ (\E req \in Requests : SwFetch(req)) /\ UNCHANGED <<progVars, admin, hist>>
    \/ \E i \in 1..Len(sw.flights), outcome \in Responses \cup {NetworkError} :
           /\ SwNetworkFirstFetch(i, outcome)
           /\ hist' = [hist EXCEPT !.okAt =
                  IF outcome.status = 200
                  THEN @ \cup {[url |-> Url(sw.flights[i].req), at |-> sw.requests]}
                  ELSE @]
           /\ UNCHANGED <<progVars, admin>>
    \/ (\E i \in 1..Len(sw.flights) : SwNetworkFirstMatch(i))
           /\ UNCHANGED <<progVars, admin, hist>>
    \/ (\E i \in 1..Len(sw.flights) : SwCacheFirstMatch(i))
           /\ UNCHANGED <<progVars, admin, hist>>
    \/ (\E i \in 1..Len(sw.flights), outcome \in Responses \cup {NetworkError} :
            SwCacheFirstFetch(i, outcome))
           /\ UNCHANGED <<progVars, admin, hist>>
    \/ (\E p \in sw.puts : SwPut(p)) /\ UNCHANGED <<progVars, admin, hist>>

SpecSW == InitSW /\ [][NextSW]_vars

\* The dataset of InitSeeded, as loadData leaves it on a fresh install.
SeededBusinesses == [i \in Ids |-> IF i = 1 THEN 1 ELSE 0]
SeededVersion ==
    [businessCount |-> 1, categoryCount |-> MaxCat, fingerprint |-> 0, last_sync |-> 1]

\* The page has loaded the seeded dataset, an admin has signed in and the
\* dashboard is shown; businesses are saved and deleted and the modals are
\* opened and closed while the change handler runs.
InitAdmin ==
    /\ remoteBusinesses = SeededBusinesses
    /\ remoteCategories = CatIds
    /\ remoteFingerprint = 0
    /\ cacheBusinesses = SeededBusinesses
    /\ cacheCategories = CatIds
    /\ localVersion = SeededVersion
    /\ businessData = [categories |-> CatIds, businesses |-> Rows(SeededBusinesses)]
    /\ isLoading = FALSE
    /\ load = [pc |-> "done", alert |-> FALSE]
    /\ sync = [IdleSync EXCEPT
                  !.pc = "done", !.remote = SeededVersion,
                  !.fetched = [categories |-> CatIds, businesses |-> Rows(SeededBusinesses)],
                  !.versionCalls = 1, !.allCalls = 1,
                  !.result = [action |-> "synced", fromCache |-> FALSE,
                              categories |-> CatIds,
                              businesses |-> Rows(SeededBusinesses)]]
    /\ handlers = <<>>
    /\ currentUser = "admin"
    /\ clock = 2
    /\ loads = 1
    /\ sw = SwRegistered({})
    /\ admin = [AdminIdle EXCEPT !.adminView = "dashboard"]
    /\ hist = NoHist

NextAdmin ==
    \/ handleAdminLoginClick /\ UNCHANGED <<hist, sw>>
    \/ LoginClose /\ UNCHANGED <<hist, sw>>
    \/ handleLogin /\ UNCHANGED <<hist, sw>>
    \/ handleLoginFails /\ UNCHANGED <<hist, sw>>
    \/ (\E user \in {"user", "admin"} : handleLoginSuccess(user)) /\ UNCHANGED <<hist, sw>>
    \/ onAdd /\ UNCHANGED <<hist, sw>>
    \/ onEdit /\ UNCHANGED <<hist, sw>>
    \/ (\E id \in Ids : onSelect(id)) /\ UNCHANGED <<hist, sw>>
    \/ onBack /\ UNCHANGED <<hist, sw>>
    \/ FormClose /\ UNCHANGED <<hist, sw>>
    \/ handleCloseAdmin /\ UNCHANGED <<hist, sw>>
    \/ LogoutStart /\ UNCHANGED <<hist, sw>>
    \/ (\E ok \in BOOLEAN : handleLogout(ok)) /\ UNCHANGED <<hist, sw>>
    \/ (\E b \in [id : 0..MaxId, c : Contents] : SaveStart(b))
           /\ hist' = [hist EXCEPT !.wrote = "none"]
           /\ UNCHANGED sw
    \/ (\E notified \in BOOLEAN : SaveMutate(TRUE, notified))
           /\ hist' = [hist EXCEPT !.wrote = "ok"]
           /\ UNCHANGED sw
    \/ SaveMutate(FALSE, FALSE)
           /\ hist' = [hist EXCEPT !.wrote = "failed"]
           /\ UNCHANGED sw
    \/ (\E ok \in BOOLEAN : SaveReload(ok)) /\ UNCHANGED <<hist, sw>>
    \/ (\E id \in Ids : DeleteStart(id))
           /\ hist' = [hist EXCEPT !.wrote = "none"]
           /\ UNCHANGED sw
    \/ (\E notified \in BOOLEAN : DeleteMutate(TRUE, notified))
           /\ hist' = [hist EXCEPT !.wrote = "ok"]
           /\ UNCHANGED sw
    \/ DeleteMutate(FALSE, FALSE)
           /\ hist' = [hist EXCEPT !.wrote = "failed"]
           /\ UNCHANGED sw
    \/ (\E ok \in BOOLEAN : DeleteReload(ok)) /\ UNCHANGED <<hist, sw>>
    \/ (\E i \in 1..Len(handlers) : HApply(i)) /\ UNCHANGED <<hist, sw, admin>>
    \/ (\E i \in 1..Len(handlers) : HMerge(i)) /\ UNCHANGED <<hist, sw, admin>>
    \/ (\E i \in 1..Len(handlers), ok \in BOOLEAN : HGetVersion(i, ok))
           /\ UNCHANGED <<hist, sw, admin>>
    \/ (\E i \in 1..Len(handlers) : HSetVersion(i)) /\ UNCHANGED <<hist, sw, admin>>

SpecAdmin == InitAdmin /\ [][NextAdmin]_vars

\* ---- properties of smartSync (SpecSync) ----

SyncDone == sync.pc = "done"

\* Two versions agree on (businessCount, categoryCount, fingerprint).
SameVersion(a, b) ==
    /\ a.businessCount = b.businessCount
    /\ a.categoryCount = b.categoryCount
    /\ a.fingerprint = b.fingerprint

\* smartSync got a remote version and it differs from the local version it read.
RemoteDiffers ==
    /\ ~hist.versionFailed
    /\ sync.local = Absent \/ ~SameVersion(sync.remote, sync.local)

\* smartSync got a remote version and it equals the local version it read.
RemoteEqual ==
    /\ ~hist.versionFailed
    /\ sync.local # Absent
    /\ SameVersion(sync.remote, sync.local)

\* The Entity Cache holds exactly the remote tables served to fetchAll, the
\* Version Store holds the fetched remote version, and the result is that
\* data tagged synced, not from cache.
FullySynced ==
    /\ cacheBusinesses = hist.served.businesses
    /\ cacheCategories = hist.served.categories
    /\ localVersion = sync.remote
    /\ sync.result = [action |-> "synced", fromCache |-> FALSE,
                      categories |-> hist.served.categories,
                      businesses |-> Rows(hist.served.businesses)]

\* The result is the current Entity Cache contents tagged no_change.
ReturnedCache ==
    /\ sync.result.action = "no_change"
    /\ sync.result.categories = cacheCategories
    /\ sync.result.businesses = Rows(cacheBusinesses)

CacheAsAtCall ==
    /\ cacheBusinesses = hist.atCall.businesses
    /\ cacheCategories = hist.atCall.categories

\* C1, as claimed: whenever fetchVersion succeeds and the remote version
\* differs from the local one, smartSync calls fetchAll, replaces the Entity
\* Cache with the fetched data, stores the fetched remote version and returns
\* the fetched data tagged synced, fromCache = false.
C1Original ==
    (SyncDone /\ RemoteDiffers) => (sync.allCalls = 1 /\ FullySynced)

\* C1, amended: whenever fetchVersion succeeds and the remote version differs
\* from the local one, smartSync calls fetchAll once, and if fetchAll succeeds
\* it replaces the Entity Cache with exactly the fetched data, stores the
\* fetched remote version and returns the fetched data tagged synced,
\* fromCache = false.
C1Amended ==
    (SyncDone /\ RemoteDiffers) =>
        (sync.allCalls = 1 /\ (~hist.allFailed => FullySynced))

\* A sync that replaced a present, differing local version and fetched businesses.
C1Witness ==
    /\ SyncDone /\ RemoteDiffers /\ ~hist.allFailed
    /\ sync.local # Absent
    /\ sync.result.action = "synced"
    /\ Len(sync.result.businesses) > 0
    /\ cacheCategories # {}

\* C2: whenever the remote version equals the local version, smartSync does
\* not call fetchAll, returns the current Entity Cache contents tagged
\* no_change, and the Entity Cache is as it was when smartSync was called.
C2Theorem ==
    (SyncDone /\ RemoteEqual) =>
        (sync.allCalls = 0 /\ ReturnedCache /\ CacheAsAtCall)

C2Witness ==
    /\ SyncDone /\ RemoteEqual
    /\ sync.allCalls = 0
    /\ cacheBusinesses # NoBusinesses

\* C3, as claimed: if the local version is absent when smartSync starts,
\* smartSync performs a full fetch.
C3Original ==
    (SyncDone /\ sync.local = Absent) => sync.allCalls = 1

\* C3, amended: if the local version is absent when smartSync starts and
\* fetchVersion succeeds, smartSync performs a full fetch, whatever the remote
\* version is.
C3Amended ==
    (SyncDone /\ sync.local = Absent /\ ~hist.versionFailed) => sync.allCalls = 1

\* A full fetch for an absent local version although the remote dataset is empty.
C3Witness ==
    /\ SyncDone /\ sync.local = Absent /\ ~hist.versionFailed
    /\ sync.allCalls = 1
    /\ sync.remote.businessCount = 0
    /\ sync.remote.categoryCount = 0

\* C4: if fetchVersion fails, smartSync returns (it does not raise) the
\* current Entity Cache contents tagged no_change, fromCache = true, calls no
\* fetchAll, and leaves the Entity Cache and the Version Store as they were.
C4Theorem ==
    (SyncDone /\ hist.versionFailed) =>
        /\ ReturnedCache
        /\ sync.result.fromCache
        /\ sync.allCalls = 0
        /\ CacheAsAtCall
        /\ localVersion = hist.atCall.version

C4Witness ==
    /\ SyncDone /\ hist.versionFailed
    /\ cacheBusinesses # NoBusinesses
    /\ localVersion # Absent

\* Every invocation calls fetchVersion exactly once and fetchAll at most once.
OneFetchEach ==
    /\ sync.versionCalls <= 1
    /\ sync.allCalls <= 1
    /\ SyncDone => sync.versionCalls = 1

\* C5, as claimed: every invocation performs exactly one fetchVersion call and
\* at most one fetchAll call, and the second of two invocations in a row with
\* an unchanged remote version performs no fetchAll.
C5Original ==
    /\ OneFetchEach
    /\ hist.twice => sync.allCalls = 0

\* C5, amended: every invocation performs exactly one fetchVersion call and at
\* most one fetchAll call, and the second of two invocations in a row with an
\* unchanged remote version performs no fetchAll provided the fetches of the
\* first invocation succeeded.
C5Amended ==
    /\ OneFetchEach
    /\ (hist.twice /\ hist.prevOk) =>
           (sync.allCalls = 0 /\ (SyncDone /\ ~hist.versionFailed => RemoteEqual))

C5Witness ==
    /\ hist.twice /\ hist.prevOk
    /\ SyncDone /\ ~hist.versionFailed
    /\ sync.allCalls = 0
    /\ cacheBusinesses # NoBusinesses

\* ---- properties of the change handler (SpecEvents) ----

\* C6: for every sequence of INSERT, UPDATE and DELETE events applied by the
\* change handler to an initially empty Entity Cache, once all handlers have
\* completed the Entity Cache equals the events folded in delivery order by
\* upsert-by-id and delete-by-id.
C6Theorem ==
    handlers = <<>> => cacheBusinesses = hist.folded

\* All handlers done after a sequence that ended in a DELETE and left a business.
C6Witness ==
    /\ handlers = <<>>
    /\ hist.events >= 3
    /\ hist.lastEv.eventType = "DELETE"
    /\ cacheBusinesses # NoBusinesses

IsUpsert(ev) == ev.eventType \in {"INSERT", "UPDATE"}

\* C7: applying the same INSERT or UPDATE event a second time in succession
\* leaves the Entity Cache as the first application left it.
C7Theorem ==
    [][\A i \in 1..Len(handlers) :
           (HApply(i) /\ IsUpsert(handlers[i].ev) /\ handlers[i].ev = hist.lastEv)
               => cacheBusinesses' = cacheBusinesses]_vars

\* The same upsert has been applied twice in succession.
C7Witness ==
    /\ hist.repeated
    /\ IsUpsert(hist.lastEv)

C9Claim ==
    IdsIn(cacheBusinesses) \subseteq hist.seen

\* C10, as claimed: when every remote change has been notified, the handlers
\* of all the events have completed with their version fetches answered, and
\* smartSync has not written the Version Store since, the persisted local
\* version equals the current remote version.
C10Claim ==
    (/\ hist.handled
     /\ handlers = <<>>
     /\ ~hist.lost
     /\ ~hist.refreshFailed
     /\ ~hist.syncWrote)
        => SameVersion(localVersion, getDataVersion)

\* ---- a full sync racing a change event (SpecRace) ----

\* C11, as claimed: when a replaceAll of a full sync has overwritten the
\* effect of an applied change event, then once smartSync has returned and every
\* handler has completed with its version fetch answered, the Entity Cache
\* does not lack the event's effect while the persisted local version equals
\* the remote version.
C11Claim ==
    (/\ hist.overwritten
     /\ SyncDone
     /\ handlers = <<>>
     /\ ~hist.refreshFailed
     /\ SameVersion(localVersion, getDataVersion))
        => cacheBusinesses = remoteBusinesses

\* ---- the order of the handler's cache mutations (SpecEvents) ----

RECURSIVE Without(_, _)
Without(list, id) ==
    IF list = <<>> THEN <<>>
    ELSE (IF Head(list).id = id THEN <<>> ELSE <<Head(list)>>) \o Without(Tail(list), id)

\* C14: the handler merges an INSERT by putting the decoded business at the
\* head of the in-memory list, an UPDATE by replacing in place the entries of
\* the same id, every other entry and the order unchanged, a DELETE by
\* removing every entry of old.id; the in-memory categories stay as they are.
C14Theorem ==
    [][\A i \in 1..Len(handlers) :
           HMerge(i) =>
               LET ev == handlers[i].ev
                   old == businessData.businesses
                   new == businessData'.businesses
               IN /\ businessData'.categories = businessData.categories
                  /\ ev.eventType = "INSERT" =>
                         /\ Len(new) = Len(old) + 1
                         /\ Head(new) = [id |-> ev.id, c |-> ev.c]
                         /\ Tail(new) = old
                  /\ ev.eventType = "UPDATE" =>
                         /\ Len(new) = Len(old)
                         /\ \A k \in 1..Len(old) :
                                new[k] = IF old[k].id = ev.id
                                         THEN [id |-> ev.id, c |-> ev.c]
                                         ELSE old[k]
                  /\ ev.eventType = "DELETE" => new = Without(old, ev.id)]_vars

\* An UPDATE has been merged into a list of several businesses and has
\* changed an entry that is not at the head.
C14Witness ==
    \E i \in 1..Len(handlers) :
        /\ handlers[i].ev.eventType = "UPDATE"
        /\ handlers[i].pc = "getVersion"
        /\ Len(businessData.businesses) >= 2
        /\ businessData.businesses[2] = [id |-> handlers[i].ev.id, c |-> handlers[i].ev.c]
        /\ businessData.businesses[1].id # handlers[i].ev.id
        /\ cacheBusinesses[handlers[i].ev.id] = handlers[i].ev.c

\* ---- properties of the service worker (SpecSW) ----

\* The listener responds to the request in this step.
Answers == sw'.last # sw.last /\ sw'.last.kind # "passthrough"

\* The request goes to the remote backend's data endpoints.
IsBackend(req) == req.origin = SupabaseOrigin

Intercepted(req) == req.method = "GET" /\ ~IsBackend(req)

\* C15: a network-first request whose network fetch has failed is answered
\* with a cached response for the identical request if one exists, and with
\* the failure otherwise.
C15Theorem ==
    [][(Answers /\ NetworkFirst(sw'.last.req) /\ sw'.last.kind # "network") =>
           IF Matches(sw'.last.req) # {}
           THEN sw'.last.kind = "cache" /\ sw'.last.resp \in Matches(sw'.last.req)
           ELSE sw'.last.kind = "error"]_vars

\* The second of two identical network-first requests has failed on the
\* network and has been answered with the response cached for the first.
C15Witness ==
    /\ sw.last.n = 2
    /\ sw.last.kind = "cache"
    /\ NetworkFirst(sw.last.req)
    /\ [url |-> Url(sw.last.req), resp |-> sw.last.resp] \in sw.store[RUNTIME_CACHE]

\* C16, as claimed: once a network-first request has been answered by the
\* network with status 200, no later request for the same URL whose network
\* fetch fails is answered with the failure.
C16Claim ==
    ~(/\ sw.last.kind = "error"
      /\ NetworkFirst(sw.last.req)
      /\ \E e \in hist.okAt : e.url = Url(sw.last.req) /\ e.at < sw.last.n)

\* C17: a cache-first request with a cached response is answered with it and
\* no network fetch is made; without one the network is fetched, a response
\* of status 200 is handed to the runtime cache and returned, any other
\* response is returned and not cached; a write handed to the runtime cache
\* files the response under the request's URL.
C17Theorem ==
    [][/\ \A i \in 1..Len(sw.flights) :
              LET f == sw.flights[i]
              IN /\ SwCacheFirstMatch(i) =>
                        IF Matches(f.req) # {}
                        THEN /\ sw'.last.n = f.n
                             /\ sw'.last.kind = "cache"
                             /\ sw'.last.resp \in Matches(f.req)
                             /\ Len(sw'.flights) = Len(sw.flights) - 1
                             /\ sw'.puts = sw.puts
                        ELSE /\ sw'.flights[i].pc = "cfFetch"
                             /\ sw'.last = sw.last
                 /\ \A outcome \in Responses :
                        SwCacheFirstFetch(i, outcome) =>
                            /\ sw'.last = [n |-> f.n, req |-> f.req, kind |-> "network",
                                           resp |-> outcome]
                            /\ sw'.store = sw.store
                            /\ IF outcome.status = 200
                               THEN sw'.puts = sw.puts \cup {[req |-> f.req, resp |-> outcome]}
                               ELSE sw'.puts = sw.puts
       /\ \A p \in sw.puts :
              SwPut(p) => /\ RUNTIME_CACHE \in sw'.names
                          /\ [url |-> Url(p.req), resp |-> p.resp] \in sw'.store[RUNTIME_CACHE]]_vars

\* The second of two identical cache-first requests has been answered from
\* the runtime cache, which the first one filled.
C17Witness ==
    /\ sw.last.n = 2
    /\ sw.last.kind = "cache"
    /\ ~NetworkFirst(sw.last.req)
    /\ Intercepted(sw.last.req)
    /\ [url |-> Url(sw.last.req), resp |-> sw.last.resp] \in sw.store[RUNTIME_CACHE]

\* C18: requests to the backend and non-GET requests are not intercepted: the
\* listener neither responds to them nor hands a response of theirs to a
\* cache, and no cache holds a response of a backend request.
C18Theorem ==
    /\ [](/\ \A n \in CacheNames : \A e \in sw.store[n] :
                 e.url.origin # SupabaseOrigin
          /\ \A p \in sw.puts : Intercepted(p.req)
          /\ \A i \in 1..Len(sw.flights) : Intercepted(sw.flights[i].req))
    /\ [][\A req \in Requests :
              (SwFetch(req) /\ ~Intercepted(req)) =>
                  /\ sw'.last.kind = "passthrough"
                  /\ sw'.flights = sw.flights
                  /\ sw'.puts = sw.puts
                  /\ sw'.store = sw.store]_vars

\* A GET to the backend under a network-first path has been passed through
\* while the runtime cache holds the response of another request.
C18Witness ==
    /\ sw.last.kind = "passthrough"
    /\ sw.last.req = [method |-> "GET", origin |-> SupabaseOrigin, pathname |-> ApiPath]
    /\ sw.store[RUNTIME_CACHE] # {}

\* C19: when activation has completed no cache exists but the precache and
\* the runtime cache, and activation neither deletes nor empties these two.
C19Theorem ==
    /\ [](sw.phase = "active" => sw.names \subseteq {CACHE_NAME, RUNTIME_CACHE})
    /\ [][\A n \in {CACHE_NAME, RUNTIME_CACHE} :
              (n \in sw.names /\ sw.phase \in {"installed", "activating"}) =>
                  /\ n \in sw'.names
                  /\ sw'.store[n] = sw.store[n]]_vars

\* Activation has completed after deleting an old cache, with the precache
\* filled and a runtime cache that existed before.
C19Witness ==
    /\ sw.phase = "active"
    /\ sw.requests = 0
    /\ hist.purged
    /\ sw.names = {CACHE_NAME, RUNTIME_CACHE}
    /\ sw.store[CACHE_NAME] # {}

\* ---- properties of the admin's writes (SpecAdmin) ----

\* C20: if the remote add, update or delete of a business fails, the error
\* alert is shown, no success alert is shown for that operation and the step
\* leaves the in-memory business list as it was; a success alert is shown
\* only after the remote write of the operation has succeeded.
C20Theorem ==
    /\ [](/\ hist.wrote = "failed" => (admin.error /\ ~admin.success)
          /\ admin.success => hist.wrote = "ok")
    /\ [][(hist'.wrote = "failed" /\ hist.wrote # "failed") =>
              UNCHANGED businessData]_vars

\* The update of a listed business has failed at the remote, after an earlier
\* operation had changed the list.
C20Witness ==
    /\ hist.wrote = "failed"
    /\ admin.pc = "idle"
    /\ admin.business.id # 0
    /\ admin.error
    /\ remoteFingerprint > 0
    /\ businessData.businesses # Rows(SeededBusinesses)


\* ---- properties of malformed events (SpecDecode) ----

\* C21: no step of the handler of an event whose payload cannot be decoded
\* changes the Entity Cache, the in-memory list or the Version Store, and a
\* well-formed event delivered after a malformed one is written to the Entity
\* Cache and merged into the list as usual.
C21Claim ==
    [][/\ \A i \in 1..Len(handlers) :
              ( /\ handlers[i].ev \in MalformedEvents
                /\ \/ HSkip(i)
                   \/ HDecodeFails(i)
                   \/ HGetVersion(i, TRUE)
                   \/ HGetVersion(i, FALSE)
                   \/ HSetVersion(i) )
              => UNCHANGED <<cacheVars, businessData, localVersion>>
       /\ \A i \in 1..Len(handlers) :
              (hist.malformed /\ HApply(i))
              => /\ cacheBusinesses' = Fold(cacheBusinesses, handlers[i].ev)
                 /\ handlers'[i].pc = "persist"
      ]_vars


\* ---- properties of the startup load (SpecSync) ----

\* The in-memory view holds exactly the businesses and the categories of the
\* Entity Cache.
ShowsCache ==
    /\ Keyed(businessData.businesses) = cacheBusinesses
    /\ Len(businessData.businesses) = Cardinality(IdsIn(cacheBusinesses))
    /\ businessData.categories = cacheCategories

\* C22: when fetchVersion or fetchAll failed during a startup load whose
\* cache read succeeded, smartSync still returns, and once its result has been
\* consumed no error alert has been raised and the view shows what the Entity
\* Cache holds.
C22Claim ==
    ( /\ load.pc \in {"session", "done"}
      /\ hist.versionFailed \/ hist.allFailed
      /\ ~hist.readFailed )
    => /\ sync.pc = "done"
       /\ load.pc = "session" => ~load.alert
       /\ ShowsCache


\* ---- properties of failed durable writes (SpecDrift) ----

\* The in-memory list after an event has been merged into it.
Merged(list, ev) ==
    IF ev.eventType = "INSERT" THEN <<[id |-> ev.id, c |-> ev.c]>> \o list
    ELSE IF ev.eventType = "UPDATE"
    THEN [k \in 1..Len(list) |-> IF list[k].id = ev.id
                                  THEN [id |-> ev.id, c |-> ev.c] ELSE list[k]]
    ELSE Without(list, ev.id)

\* C23: a failed durable write of the handler leaves the Entity Cache as it
\* was and does not end the handler; the event whose write failed is merged
\* into the in-memory list and the handler goes on to the version refresh;
\* and the replaceAll of a later full sync makes the Entity Cache equal to the
\* remote dataset that fetchAll was served.
C23Theorem ==
    [][/\ \A i \in 1..Len(handlers) :
              HApplyFails(i) => /\ UNCHANGED cacheVars
                                /\ Len(handlers') = Len(handlers)
                                /\ handlers'[i].pc = "persist"
       /\ \A i \in 1..Len(handlers) :
              (HMerge(i) /\ handlers[i].ev = hist.failedEv)
              => /\ businessData'.businesses =
                        Merged(businessData.businesses, handlers[i].ev)
                 /\ handlers'[i].pc = "getVersion"
       /\ SyncReplaceAll => /\ cacheBusinesses' = hist.served.businesses
                            /\ cacheCategories' = hist.served.categories
      ]_vars

\* On the second page load a full sync has written to the Entity Cache the
\* effect of an event whose durable write had failed.
C23Witness ==
    /\ hist.healed
    /\ loads = 2
    /\ sync.pc = "setVersion"
    /\ cacheBusinesses = remoteBusinesses


\* C24: once a smartSync whose fetches all succeeded has returned, the
\* Version Store holds the version that this call's fetchVersion returned,
\* lastSync included, whether the comparison found a change or not.
C24Claim ==
    (sync.pc = "done" /\ ~hist.versionFailed /\ ~hist.allFailed)
    => localVersion = sync.remote


\* C26: the startup load shows the Entity Cache snapshot, if the snapshot
\* holds a business, in the step that invokes smartSync and not before;
\* when smartSync has returned, the view is replaced by the data of the
\* SyncResult if its action is not no_change and is left as it was if it is;
\* and a call that found the remote version unchanged writes neither the
\* Entity Cache nor the Version Store nor the view.
C26Theorem ==
    [][/\ (load.pc = "readCache" /\ load'.pc = "sync")
           => /\ sync.pc = "idle"
              /\ sync'.pc = "getLocal"
              /\ businessData' =
                     IF ~hist'.readFailed /\ IdsIn(cacheBusinesses) # {}
                     THEN [categories |-> cacheCategories,
                           businesses |-> Rows(cacheBusinesses)]
                     ELSE businessData
       /\ (load.pc = "sync" /\ load'.pc = "session")
           => /\ sync.pc = "done"
              /\ sync.result.action # "no_change"
                     => businessData' = [categories |-> sync.result.categories,
                                         businesses |-> sync.result.businesses]
              /\ sync.result.action = "no_change" => businessData' = businessData
       /\ ( /\ load.pc = "sync"
            /\ \/ sync.pc = "noChange"
               \/ /\ sync.pc = "done"
                  /\ sync.result.action = "no_change"
                  /\ ~hist.versionFailed /\ ~hist.allFailed )
           => UNCHANGED <<cacheVars, localVersion, businessData>>
      ]_vars

\* On the second page load the cache snapshot was shown, the remote version
\* was found unchanged, and the result of smartSync has been consumed.
C26Witness ==
    /\ loads = 2
    /\ load.pc = "session"
    /\ sync.result.action = "no_change"
    /\ ~hist.versionFailed
    /\ ~hist.readFailed
    /\ businessData.businesses # <<>>
    /\ businessData.businesses = Rows(cacheBusinesses)


\* C29: once a startup load whose cache read succeeded has consumed the
\* result of smartSync without raising an error, the view shows the
\* businesses and the categories of that SyncResult.
C29Claim ==
    ( /\ load.pc \in {"session", "done"}
      /\ ~load.alert
      /\ ~hist.readFailed )
    => /\ businessData.businesses = sync.result.businesses
       /\ businessData.categories = sync.result.categories


C25Claim == admin.adminView # "null" => currentUser = "admin"


\* C27: the in-memory business list holds at most one entry per business id.
C27Claim ==
    \A j, k \in 1..Len(businessData.businesses) :
        j # k => businessData.businesses[j].id # businessData.businesses[k].id


\* ---- properties of the change handler, continued (SpecEvents) ----

\* C28: when every delivered event has been fully handled, the set of
\* businesses in the in-memory list is the set of businesses in the Entity
\* Cache (the two were equal before the first event).
C28Claim ==
    handlers = <<>>
    => {businessData.businesses[k] : k \in 1..Len(businessData.businesses)}
          = {[id |-> i, c |-> cacheBusinesses[i]] : i \in IdsIn(cacheBusinesses)}

====
